---------------------------- MODULE Spec2Model ----------------------------
(***************************************************************************)
(* Keitai-WebsiteTools.                                                    *)
(*                                                                         *)
(* DataPuller/DataPuller.py : the configuration-driven batch downloader    *)
(*   (load_config, download_file, main), one process per run.              *)
(* LeaderboardDBPuller/*.py : the two database-to-CSV exporters.           *)
(* CreateResourceCard/CreateResourceCard.py : build_html and the CardGUI   *)
(*   handlers, one action per handler run by the Tk main loop.             *)
(*                                                                         *)
(* Python values read from JSON are tagged records (JNull, JStr, JList),   *)
(* a JSON object is a function from the keys it holds to such values.      *)
(* Exceptions are named by their class; the class hierarchy is the one of  *)
(* Python 3 and of the requests library.                                   *)
(***************************************************************************)
EXTENDS Integers, Sequences, FiniteSets, TLC

VARIABLES
    \* ---- DataPuller: environment
    config,      \* the configuration file on disk
    fs,          \* destination files: path -> [exists, data]
    fs0,         \* history: the destination files as this run found them
    run,         \* which invocation of the script this is (1 = first)
    served,      \* history: path -> the bodies the server sent for it in this run
    \* ---- DataPuller: the process
    pc,          \* position in load_config / main / download_file
    downloads,   \* main's local `downloads`
    idx,         \* main's loop index (1-based, as enumerate(downloads, 1))
    success_count,
    fail_count,
    resp,        \* download_file's `response`
    written,     \* chunks of the body written so far to the open file
    ret,         \* value download_file returned to main
    out,         \* lines printed (stdout, and the traceback of a crash)
    summary,     \* the numbers of the printed summary, <<>> before it
    exitCode,    \* process exit status, -1 while running
    log,         \* history: what main did with each item, in order
    \* ---- LeaderboardDBPuller
    db,          \* what the database holds
    csv,         \* CSV files on disk: name -> [exists, headers, rows]
    csv0,        \* the CSV files as they were when the script started
    epc,         \* position in LeaderboardDBPuller.main
    connOpen,    \* the psycopg2 connection is open
    mapPos,      \* position in MAP_IDS of export_ff7sb's loop
    headers,     \* export_*'s local `headers`: HNone, or <<the list>>
    all_rows,    \* export_*'s accumulated rows
    eout,        \* lines printed by the exporters
    \* ---- CreateResourceCard (CardGUI)
    gpc,         \* "mainloop" while the window is open
    card_name,   \* the StringVar of the Card Name entry
    category,    \* the StringVar of the Category entry
    update_pills, \* the BooleanVar of the checkbox
    output,      \* text of the output box
    clipboard,   \* <<>> when cleared or never set, else <<the text>>
    savedFile,   \* <<>> when nothing was written, else <<the text written>>
    dialogs,     \* message boxes the last handler showed, in order
    last,        \* history: the last handler run, and the output box before it
    steps        \* user actions so far

dpVars == <<config, fs, fs0, run, served, pc, downloads, idx, success_count,
            fail_count, resp, written, ret, out, summary, exitCode, log>>
exVars == <<db, csv, csv0, epc, connOpen, mapPos, headers, all_rows, eout>>
guiVars == <<gpc, card_name, category, update_pills, output, clipboard,
             savedFile, dialogs, last, steps>>
vars == <<dpVars, exVars, guiVars>>

----------------------------------------------------------------------------
(* Bounds of the model *)

MaxItems == 2       \* longest `downloads` list
MaxChunks == 2      \* longest response body, in chunks of chunk_size bytes
MaxRuns == 2        \* invocations of the script in a row
MaxRows == 2        \* most rows the table holds for one map
MaxLen == 2         \* longest text the user types into an entry
MaxSteps == 4       \* user actions (edits, button presses) in one session

----------------------------------------------------------------------------
(* JSON values as json.load returns them *)

JNull == [t |-> "null"]
JStr(s) == [t |-> "str", s |-> s]
JList(l) == [t |-> "list", l |-> l]

\* Python truth value: `not x` is ~Truthy(x)
Truthy(v) ==
    CASE v.t = "null" -> FALSE
      [] v.t = "str"  -> v.s # ""
      [] v.t = "list" -> Len(v.l) > 0

\* dict.get(key, default)
DictGet(d, key, default) == IF key \in DOMAIN d THEN d[key] ELSE default

Urls == {"u1"}
Paths == {"d1", "d2"}

UrlValues == {JNull, JStr("")} \cup {JStr(u) : u \in Urls}
DestValues == {JNull, JStr("")} \cup {JStr(p) : p \in Paths}

\* an item of the list: a JSON object holding any of the two keys
Items ==
    LET withUrl == {[k \in {"url"} |-> u] : u \in UrlValues}
        withDest == {[k \in {"destination"} |-> d] : d \in DestValues}
        withBoth == UNION {{[k \in {"url", "destination"} |->
                              IF k = "url" THEN u ELSE d] : u \in UrlValues}
                           : d \in DestValues}
    IN {[k \in {} |-> JNull]} \cup withUrl \cup withDest \cup withBoth

ItemLists == UNION {[1..n -> Items] : n \in 0..MaxItems}

\* the configuration file: absent, not JSON, JSON whose top level is not an
\* object, or an object (with or without the key `downloads`)
Configs ==
    {[kind |-> k, obj |-> [x \in {} |-> JNull]] :
        k \in {"missing", "invalid_json", "not_object"}}
    \cup {[kind |-> "object", obj |-> [x \in {} |-> JNull]]}
    \cup {[kind |-> "object", obj |-> [x \in {"downloads"} |-> JNull]]}
    \cup {[kind |-> "object", obj |-> [x \in {"downloads"} |-> JList(l)]] :
            l \in ItemLists}

----------------------------------------------------------------------------
(* Exceptions *)

\* requests.exceptions.RequestException and its subclasses
RequestException == {"ConnectionError", "Timeout", "HTTPError",
                     "ChunkedEncodingError"}
\* IOError is OSError in Python 3
IOError == {"OSError", "PermissionError", "FileExistsError",
            "IsADirectoryError"}

\* what each step of download_file can raise
MkdirErrors == {"PermissionError", "FileExistsError"}
GetErrors == {"ConnectionError", "Timeout"}
OpenErrors == {"PermissionError", "IsADirectoryError"}
IterErrors == {"ChunkedEncodingError", "ConnectionError"}
WriteErrors == {"OSError"}


\* download_file with only its first except clause
DownloadFileCatches_NoIOError(e) ==
    IF e \in RequestException THEN "request" ELSE "none"

\* which except clause of download_file takes exception e ("none": it escapes)
DownloadFileCatches(e) ==
    IF e \in RequestException THEN "request"
    ELSE IF e \in IOError THEN "io"
    ELSE "none"

\* which except clause of load_config takes exception e
LoadConfigCatches(e) ==
    IF e = "FileNotFoundError" THEN "not_found"
    ELSE IF e = "JSONDecodeError" THEN "json"
    ELSE "none"

\* what the try block of load_config raises on each kind of file
\* (`config.get` on a list or a scalar is an AttributeError)
LoadConfigRaises(c) ==
    CASE c.kind = "missing"      -> "FileNotFoundError"
      [] c.kind = "invalid_json" -> "JSONDecodeError"
      [] c.kind = "not_object"   -> "AttributeError"
      [] c.kind = "object"       -> "nothing"

----------------------------------------------------------------------------
(* DataPuller: state of a fresh process *)

NoResp == [ok |-> FALSE, body |-> <<>>]
NoFile == [exists |-> FALSE, data |-> <<>>]

ProcessStart ==
    /\ pc = "load_config"
    /\ downloads = JList(<<>>)
    /\ idx = 0
    /\ success_count = 0
    /\ fail_count = 0
    /\ resp = NoResp
    /\ written = 0
    /\ ret = FALSE
    /\ out = <<>>
    /\ summary = <<>>
    /\ exitCode = -1
    /\ log = <<>>
    /\ served = [p \in Paths |-> {}]

\* the card generator, not running
GuiIdle ==
    /\ gpc = "idle"
    /\ card_name = <<>>
    /\ category = <<>>
    /\ update_pills = TRUE
    /\ output = <<>>
    /\ clipboard = <<>>
    /\ savedFile = <<>>
    /\ dialogs = <<>>
    /\ last = [op |-> "none", raised |-> FALSE, before |-> <<>>]
    /\ steps = 0

\* the exporters, not running
ExportIdle ==
    /\ db = [rows |-> <<0, 0, 0>>, uid |-> FALSE, ip |-> FALSE, scores |-> 0]
    /\ csv = <<>>
    /\ csv0 = <<>>
    /\ epc = "idle"
    /\ connOpen = FALSE
    /\ mapPos = 0
    /\ headers = <<>>
    /\ all_rows = <<>>
    /\ eout = <<>>

Init ==
    /\ config \in Configs
    /\ fs = [p \in Paths |-> NoFile]
    /\ fs0 = fs
    /\ run = 1
    /\ ProcessStart
    /\ ExportIdle
    /\ GuiIdle

----------------------------------------------------------------------------
(* DataPuller: load_config and main *)

Exit(status) == pc' = "exited" /\ exitCode' = status

\* an exception nobody catches: the interpreter prints the traceback and
\* the process ends with status 1
Crash == out' = Append(out, "Traceback") /\ Exit(1)

LoadConfig ==
    /\ pc = "load_config"
    /\ LET e == LoadConfigRaises(config)
           h == LoadConfigCatches(e)
       IN IF e = "nothing"
          THEN /\ downloads' = DictGet(config.obj, "downloads", JList(<<>>))
               /\ pc' = "main_check"
               /\ UNCHANGED <<out, exitCode>>
          ELSE /\ UNCHANGED downloads
               /\ CASE h = "not_found" ->
                         /\ out' = Append(out, "Error: Configuration file not found")
                         /\ Exit(1)
                    [] h = "json" ->
                         /\ out' = Append(out, "Error: Invalid JSON in configuration file")
                         /\ Exit(1)
                    [] h = "none" -> Crash
    /\ UNCHANGED <<config, fs0, fs, run, served, idx, success_count, fail_count,
                   resp, written, ret, summary, log>>
    /\ UNCHANGED exVars
    /\ UNCHANGED guiVars

\* `if not downloads:` and the start of the loop
MainCheck ==
    /\ pc = "main_check"
    /\ IF ~Truthy(downloads)
       THEN /\ out' = Append(out, "No downloads specified in configuration file.")
            /\ Exit(0)
            /\ UNCHANGED <<idx, success_count, fail_count>>
       ELSE /\ out' = Append(out, "Found file(s) to download")
            /\ success_count' = 0
            /\ fail_count' = 0
            /\ idx' = 1
            /\ pc' = "loop"
            /\ UNCHANGED exitCode
    /\ UNCHANGED <<config, fs0, fs, run, served, downloads, resp, written, ret,
                   summary, log>>
    /\ UNCHANGED exVars
    /\ UNCHANGED guiVars

NumItems == Len(downloads.l)
Item == downloads.l[idx]
Url == DictGet(Item, "url", JNull)
Destination == DictGet(Item, "destination", JNull)

\* `if not url or not destination:`
MissingField(url, destination) == ~Truthy(url) \/ ~Truthy(destination)

Event(e) == log' = Append(log, [i |-> idx, ev |-> e])

\* `break` in place of `continue`
SkipItem_Break ==
    /\ pc = "loop"
    /\ idx <= NumItems
    /\ MissingField(Url, Destination)
    /\ out' = Append(out, "Skipping item: Missing 'url' or 'destination' field")
    /\ fail_count' = fail_count + 1
    /\ idx' = NumItems + 1
    /\ Event("skip")
    /\ UNCHANGED <<config, fs0, fs, run, served, pc, downloads, success_count,
                   resp, written, ret, summary, exitCode>>
    /\ UNCHANGED exVars
    /\ UNCHANGED guiVars

\* the skip without `fail_count += 1`
SkipItem_NoCount ==
    /\ pc = "loop"
    /\ idx <= NumItems
    /\ MissingField(Url, Destination)
    /\ out' = Append(out, "Skipping item: Missing 'url' or 'destination' field")
    /\ idx' = idx + 1
    /\ Event("skip")
    /\ UNCHANGED <<config, fs0, fs, run, served, pc, downloads, success_count,
                   fail_count, resp, written, ret, summary, exitCode>>
    /\ UNCHANGED exVars
    /\ UNCHANGED guiVars

SkipItem ==
    /\ pc = "loop"
    /\ idx <= NumItems
    /\ MissingField(Url, Destination)
    /\ out' = Append(out, "Skipping item: Missing 'url' or 'destination' field")
    /\ fail_count' = fail_count + 1
    /\ idx' = idx + 1
    /\ Event("skip")
    /\ UNCHANGED <<config, fs0, fs, run, served, pc, downloads, success_count,
                   resp, written, ret, summary, exitCode>>
    /\ UNCHANGED exVars
    /\ UNCHANGED guiVars

CallDownload ==
    /\ pc = "loop"
    /\ idx <= NumItems
    /\ ~MissingField(Url, Destination)
    /\ out' = Append(out, "[idx/total]")
    /\ pc' = "df_mkdir"
    /\ Event("call")
    /\ UNCHANGED <<config, fs0, fs, run, served, downloads, idx, success_count,
                   fail_count, resp, written, ret, summary, exitCode>>
    /\ UNCHANGED exVars
    /\ UNCHANGED guiVars

\* a failed download ends the run at once
AfterDownload_AbortOnFailure ==
    /\ pc = "df_return"
    /\ IF ret
       THEN /\ success_count' = success_count + 1
            /\ idx' = idx + 1
            /\ pc' = "loop"
            /\ UNCHANGED <<fail_count, exitCode>>
       ELSE /\ fail_count' = fail_count + 1
            /\ pc' = "exited"
            /\ exitCode' = 1
            /\ UNCHANGED <<success_count, idx>>
    /\ UNCHANGED <<config, fs0, fs, run, served, downloads, resp, written, ret,
                   out, summary, log>>
    /\ UNCHANGED exVars
    /\ UNCHANGED guiVars

\* the value download_file returned is not looked at
AfterDownload_CountsFailure ==
    /\ pc = "df_return"
    /\ fail_count' = fail_count + 1
    /\ idx' = idx + 1
    /\ pc' = "loop"
    /\ UNCHANGED <<config, fs0, fs, run, served, downloads, success_count, resp,
                   written, ret, out, summary, exitCode, log>>
    /\ UNCHANGED exVars
    /\ UNCHANGED guiVars

\* a failed download is tried again
AfterDownload_Retry ==
    /\ pc = "df_return"
    /\ IF ret
       THEN /\ success_count' = success_count + 1
            /\ idx' = idx + 1
            /\ pc' = "loop"
            /\ UNCHANGED <<fail_count, log>>
       ELSE /\ fail_count' = fail_count + 1
            /\ pc' = "df_mkdir"
            /\ log' = Append(log, [i |-> idx, ev |-> "call"])
            /\ UNCHANGED <<success_count, idx>>
    /\ UNCHANGED <<config, fs0, fs, run, served, downloads, resp, written, ret,
                   out, summary, exitCode>>
    /\ UNCHANGED exVars
    /\ UNCHANGED guiVars

\* `if download_file(url, destination):` ... `else:`
AfterDownload ==
    /\ pc = "df_return"
    /\ IF ret
       THEN success_count' = success_count + 1 /\ UNCHANGED fail_count
       ELSE fail_count' = fail_count + 1 /\ UNCHANGED success_count
    /\ idx' = idx + 1
    /\ pc' = "loop"
    /\ UNCHANGED <<config, fs0, fs, run, served, downloads, resp, written, ret,
                   out, summary, exitCode, log>>
    /\ UNCHANGED exVars
    /\ UNCHANGED guiVars

\* `fail_count > 1` in place of `fail_count > 0`
ExitStatus_OffByOne(failed) == IF failed > 1 THEN 1 ELSE 0

\* `if fail_count > 0: sys.exit(1)`, else main returns and the status is 0
ExitStatus(failed) == IF failed > 0 THEN 1 ELSE 0

Summary ==
    /\ pc = "loop"
    /\ idx > NumItems
    /\ out' = Append(out, "Download Summary:")
    /\ summary' = <<success_count, fail_count, NumItems>>
    /\ Exit(ExitStatus(fail_count))
    /\ UNCHANGED <<config, fs0, fs, run, served, downloads, idx, success_count,
                   fail_count, resp, written, ret, log>>
    /\ UNCHANGED exVars
    /\ UNCHANGED guiVars

----------------------------------------------------------------------------
(* DataPuller: download_file(url, destination) *)

Dest == Destination.s

\* `return b`
Return(b) ==
    /\ ret' = b
    /\ pc' = "df_return"
    /\ Event(IF b THEN "true" ELSE "false")
    /\ UNCHANGED exitCode

\* exception e raised inside the try block
Raise(e) ==
    /\ resp' = NoResp
    /\ written' = 0
    /\ LET h == DownloadFileCatches(e)
       IN CASE h = "request" ->
                 out' = Append(out, "Error downloading") /\ Return(FALSE)
            [] h = "io" ->
                 out' = Append(out, "Error writing to") /\ Return(FALSE)
            [] h = "none" ->
                 Crash /\ Event("raised") /\ UNCHANGED ret

\* dest_path.parent.mkdir(parents=True, exist_ok=True), then the two prints
DfMkdir ==
    /\ pc = "df_mkdir"
    /\ \/ \E e \in MkdirErrors : Raise(e)
       \/ /\ out' = Append(out, "Downloading / Destination")
          /\ pc' = "df_get"
          /\ UNCHANGED <<resp, written, ret, exitCode, log>>
    /\ UNCHANGED <<config, fs0, fs, run, served, downloads, idx, success_count,
                   fail_count, summary>>
    /\ UNCHANGED exVars
    /\ UNCHANGED guiVars

\* the body the server offers in this run, n chunks long
Body(n) == [i \in 1..n |-> run]

\* response = requests.get(url, stream=True, timeout=30)
DfGet ==
    /\ pc = "df_get"
    /\ \/ /\ \E e \in GetErrors : Raise(e)
          /\ UNCHANGED served
       \/ /\ \E ok \in BOOLEAN, n \in 0..MaxChunks :
                /\ resp' = [ok |-> ok, body |-> Body(n)]
                /\ served' = [served EXCEPT ![Dest] =
                                IF ok THEN @ \cup {Body(n)} ELSE @]
          /\ pc' = "df_status"
          /\ UNCHANGED <<written, ret, out, exitCode, log>>
    /\ UNCHANGED <<config, fs0, fs, run, downloads, idx, success_count,
                   fail_count, summary>>
    /\ UNCHANGED exVars
    /\ UNCHANGED guiVars

\* response.raise_for_status()
DfRaiseForStatus ==
    /\ pc = "df_status"
    /\ IF resp.ok
       THEN pc' = "df_open" /\ UNCHANGED <<resp, written, ret, out, exitCode, log>>
       ELSE Raise("HTTPError")
    /\ UNCHANGED <<config, fs0, fs, run, served, downloads, idx, success_count,
                   fail_count, summary>>
    /\ UNCHANGED exVars
    /\ UNCHANGED guiVars

\* open(destination, 'wb'): creates the file or truncates the one there
DfOpen ==
    /\ pc = "df_open"
    /\ \/ /\ \E e \in OpenErrors : Raise(e)
          /\ UNCHANGED fs
       \/ /\ fs' = [fs EXCEPT ![Dest] = [exists |-> TRUE, data |-> <<>>]]
          /\ pc' = "df_stream"
          /\ UNCHANGED <<resp, written, ret, out, exitCode, log>>
    /\ UNCHANGED <<config, fs0, run, served, downloads, idx, success_count,
                   fail_count, summary>>
    /\ UNCHANGED exVars
    /\ UNCHANGED guiVars

\* one turn of `for chunk in response.iter_content(...): f.write(chunk)`,
\* or the end of the loop: the file is closed, success is printed
DfStream ==
    /\ pc = "df_stream"
    /\ IF written < Len(resp.body)
       THEN \/ /\ \E e \in IterErrors : Raise(e)
               /\ UNCHANGED fs
            \/ /\ \E e \in WriteErrors : Raise(e)
               /\ UNCHANGED fs
            \/ /\ fs' = [fs EXCEPT ![Dest].data =
                           Append(@, resp.body[written + 1])]
               /\ written' = written + 1
               /\ UNCHANGED <<pc, resp, ret, out, exitCode, log>>
       ELSE /\ out' = Append(out, "Successfully downloaded to")
            /\ resp' = NoResp
            /\ written' = 0
            /\ Return(TRUE)
            /\ UNCHANGED fs
    /\ UNCHANGED <<config, fs0, run, served, downloads, idx, success_count,
                   fail_count, summary>>
    /\ UNCHANGED exVars
    /\ UNCHANGED guiVars

\* the script is started again with the same configuration file
Rerun ==
    /\ pc = "exited"
    /\ run < MaxRuns
    /\ run' = run + 1
    /\ pc' = "load_config"
    /\ downloads' = JList(<<>>)
    /\ idx' = 0
    /\ success_count' = 0
    /\ fail_count' = 0
    /\ resp' = NoResp
    /\ written' = 0
    /\ ret' = FALSE
    /\ out' = <<>>
    /\ summary' = <<>>
    /\ exitCode' = -1
    /\ log' = <<>>
    /\ served' = [p \in Paths |-> {}]
    /\ fs0' = fs
    /\ UNCHANGED <<config, fs>>
    /\ UNCHANGED exVars
    /\ UNCHANGED guiVars

Next ==
    \/ LoadConfig \/ MainCheck \/ SkipItem \/ CallDownload \/ AfterDownload
    \/ Summary \/ DfMkdir \/ DfGet \/ DfRaiseForStatus \/ DfOpen \/ DfStream

Spec == Init /\ [][Next]_vars

NextRerun == Next \/ Rerun

SpecRerun == Init /\ [][NextRerun]_vars


----------------------------------------------------------------------------
(* LeaderboardDBPuller: the database and the queries *)

MAP_IDS == <<1, 3, 5>>

CsvNames == {"ff7sb.csv", "rockmanx.csv"}
NoCsv == [exists |-> FALSE, headers |-> <<>>, rows |-> <<>>]
OldCsv == [exists |-> TRUE, headers |-> <<"old">>, rows |-> <<>>]

\* Python's None for `headers`
HNone == <<>>

\* list.index(x)
IndexOf(seq, x) == CHOOSE i \in 1..Len(seq) : seq[i] = x

\* [v for i, v in enumerate(seq) if i != at]
RemoveAt(seq, at) ==
    [i \in 1..(Len(seq) - 1) |-> IF i < at THEN seq[i] ELSE seq[i + 1]]

Contains(seq, x) == \E i \in 1..Len(seq) : seq[i] = x

\* cursor.description and fetchall() of fetch_map's query for map m:
\* db.rows[k] rows for the k-th map, best run first
MapHeaders == (IF db.uid THEN <<"uid">> ELSE <<>>) \o <<"name", "run_time", "map">>
MapRows(k) ==
    [i \in 1..db.rows[k] |->
        (IF db.uid THEN <<100 + i>> ELSE <<>>) \o <<i, 10 * i, MAP_IDS[k]>>]

\* fetch_map(conn, MAP_IDS[k]): strip `uid`, add map_id at the end
FetchMap(k) ==
    LET hd == MapHeaders
        rw == MapRows(k)
        strip == Contains(hd, "uid")
        at == IndexOf(hd, "uid")
        hd2 == IF strip THEN RemoveAt(hd, at) ELSE hd
        rw2 == IF strip THEN [i \in 1..Len(rw) |-> RemoveAt(rw[i], at)] ELSE rw
    IN [headers |-> Append(hd2, "map_id"),
        rows |-> [i \in 1..Len(rw2) |-> Append(rw2[i], MAP_IDS[k])]]

\* fetch_top_scores(conn): remove the `ip` column if present
ScoreHeaders ==
    (IF db.ip THEN <<"ip">> ELSE <<>>) \o <<"playername", "hiscore", "datetime">>
ScoreRows ==
    [i \in 1..db.scores |->
        (IF db.ip THEN <<900 + i>> ELSE <<>>) \o <<i, 100 - i, i>>]

FetchTopScores ==
    LET hd == ScoreHeaders
        rw == ScoreRows
        strip == Contains(hd, "ip")
        at == IndexOf(hd, "ip")
    IN [headers |-> IF strip THEN RemoveAt(hd, at) ELSE hd,
        rows |-> IF strip THEN [i \in 1..Len(rw) |-> RemoveAt(rw[i], at)] ELSE rw]

----------------------------------------------------------------------------
(* LeaderboardDBPuller: main, export_ff7sb, export_rockmanx *)

\* the downloader, not running
DataPullerIdle ==
    /\ config = [kind |-> "missing", obj |-> [x \in {} |-> JNull]]
    /\ fs = [p \in Paths |-> NoFile]
    /\ fs0 = fs
    /\ run = 0
    /\ pc = "idle"
    /\ downloads = JList(<<>>)
    /\ idx = 0
    /\ success_count = 0
    /\ fail_count = 0
    /\ resp = NoResp
    /\ written = 0
    /\ ret = FALSE
    /\ out = <<>>
    /\ summary = <<>>
    /\ exitCode = -1
    /\ log = <<>>
    /\ served = [p \in Paths |-> {}]

InitExport ==
    /\ db \in [rows : [1..Len(MAP_IDS) -> 0..MaxRows], uid : BOOLEAN,
               ip : BOOLEAN, scores : 0..MaxRows]
    /\ csv \in [CsvNames -> {NoCsv, OldCsv}]
    /\ csv0 = csv
    /\ epc = "main"
    /\ connOpen = FALSE
    /\ mapPos = 0
    /\ headers = HNone
    /\ all_rows = <<>>
    /\ eout = <<>>
    /\ DataPullerIdle
    /\ GuiIdle

\* main(): the first print, then export_ff7sb(OUTPUT_DIR) is entered
ExportMain ==
    /\ epc = "main"
    /\ eout' = Append(eout, "[MASTER] Saving all CSVs to")
    /\ epc' = "ff_connect"
    /\ UNCHANGED <<db, csv, csv0, connOpen, mapPos, headers, all_rows>>
    /\ UNCHANGED dpVars
    /\ UNCHANGED guiVars

\* conn = get_connection(DB_NAME); all_rows = []; headers = None
\* (psycopg2.connect may raise: nothing catches it)
FfConnect ==
    /\ epc = "ff_connect"
    /\ \/ /\ eout' = eout \o <<"[FF7SB] Connecting to DB", "Traceback">>
          /\ epc' = "crashed"
          /\ UNCHANGED <<connOpen, mapPos, headers, all_rows>>
       \/ /\ eout' = Append(eout, "[FF7SB] Connecting to DB")
          /\ connOpen' = TRUE
          /\ all_rows' = <<>>
          /\ headers' = HNone
          /\ mapPos' = 1
          /\ epc' = "ff_loop"
    /\ UNCHANGED <<db, csv, csv0>>
    /\ UNCHANGED dpVars
    /\ UNCHANGED guiVars

\* one turn of `for map_id in MAP_IDS:` (the query may raise), or its end
FfFetch ==
    /\ epc = "ff_loop"
    /\ IF mapPos <= Len(MAP_IDS)
       THEN \/ /\ eout' = Append(eout, "[FF7SB] Fetching map")
               /\ epc' = "ff_finally_exc"
               /\ UNCHANGED <<headers, all_rows, mapPos>>
            \/ /\ eout' = Append(eout, "[FF7SB] Fetching map")
               /\ LET r == FetchMap(mapPos)
                  IN /\ headers' = IF headers = HNone THEN <<r.headers>> ELSE headers
                     /\ all_rows' = all_rows \o r.rows
               /\ mapPos' = mapPos + 1
               /\ UNCHANGED epc
       ELSE /\ epc' = "ff_finally"
            /\ UNCHANGED <<eout, headers, all_rows, mapPos>>
    /\ UNCHANGED <<db, csv, csv0, connOpen>>
    /\ UNCHANGED dpVars
    /\ UNCHANGED guiVars

\* finally: conn.close(); an exception of the loop goes on to main
FfFinally ==
    /\ epc \in {"ff_finally", "ff_finally_exc"}
    /\ connOpen' = FALSE
    /\ IF epc = "ff_finally_exc"
       THEN /\ eout' = eout \o <<"[FF7SB] Database connection closed.", "Traceback">>
            /\ epc' = "crashed"
       ELSE /\ eout' = Append(eout, "[FF7SB] Database connection closed.")
            /\ epc' = "ff_check"
    /\ UNCHANGED <<db, csv, csv0, mapPos, headers, all_rows>>
    /\ UNCHANGED dpVars
    /\ UNCHANGED guiVars

\* `if headers is None:` of export_ff7sb
Ff7sbNoData(h, rows) == h = HNone

\* `if not rows:` of export_rockmanx
RockmanxNoData(h, rows) == Len(rows) = 0

\* csv.writer: writerow(headers), writerows(rows) to a file opened with "w"
WriteCsv(name, h, rows) ==
    csv' = [csv EXCEPT ![name] = [exists |-> TRUE, headers |-> h, rows |-> rows]]

\* the rest of export_ff7sb; on return main enters export_rockmanx
FfWrite ==
    /\ epc = "ff_check"
    /\ IF Ff7sbNoData(headers, all_rows)
       THEN /\ eout' = Append(eout, "[FF7SB] No data returned - CSV not written.")
            /\ UNCHANGED csv
       ELSE /\ WriteCsv("ff7sb.csv", headers[1], all_rows)
            /\ eout' = Append(eout, "[FF7SB] Wrote rows")
    /\ epc' = "rx_connect"
    /\ UNCHANGED <<db, csv0, connOpen, mapPos, headers, all_rows>>
    /\ UNCHANGED dpVars
    /\ UNCHANGED guiVars

RxConnect ==
    /\ epc = "rx_connect"
    /\ \/ /\ eout' = eout \o <<"[RockmanX] Connecting to DB", "Traceback">>
          /\ epc' = "crashed"
          /\ UNCHANGED connOpen
       \/ /\ eout' = Append(eout, "[RockmanX] Connecting to DB")
          /\ connOpen' = TRUE
          /\ epc' = "rx_fetch"
    /\ UNCHANGED <<db, csv, csv0, mapPos, headers, all_rows>>
    /\ UNCHANGED dpVars
    /\ UNCHANGED guiVars

\* headers, rows = fetch_top_scores(conn)  (the query may raise)
RxFetch ==
    /\ epc = "rx_fetch"
    /\ \/ /\ epc' = "rx_finally_exc"
          /\ UNCHANGED <<headers, all_rows>>
       \/ /\ LET r == FetchTopScores
             IN headers' = <<r.headers>> /\ all_rows' = r.rows
          /\ epc' = "rx_finally"
    /\ UNCHANGED <<db, csv, csv0, connOpen, mapPos, eout>>
    /\ UNCHANGED dpVars
    /\ UNCHANGED guiVars

RxFinally ==
    /\ epc \in {"rx_finally", "rx_finally_exc"}
    /\ connOpen' = FALSE
    /\ IF epc = "rx_finally_exc"
       THEN /\ eout' = eout \o <<"[RockmanX] Database connection closed.", "Traceback">>
            /\ epc' = "crashed"
       ELSE /\ eout' = Append(eout, "[RockmanX] Database connection closed.")
            /\ epc' = "rx_check"
    /\ UNCHANGED <<db, csv, csv0, mapPos, headers, all_rows>>
    /\ UNCHANGED dpVars
    /\ UNCHANGED guiVars

\* the rest of export_rockmanx, then main's last print
RxWrite ==
    /\ epc = "rx_check"
    /\ IF RockmanxNoData(headers, all_rows)
       THEN /\ eout' = eout \o <<"[RockmanX] No data returned - CSV not written.",
                                 "[MASTER] All leaderboards exported successfully.">>
            /\ UNCHANGED csv
       ELSE /\ WriteCsv("rockmanx.csv", headers[1], all_rows)
            /\ eout' = eout \o <<"[RockmanX] Wrote rows",
                                 "[MASTER] All leaderboards exported successfully.">>
    /\ epc' = "done"
    /\ UNCHANGED <<db, csv0, connOpen, mapPos, headers, all_rows>>
    /\ UNCHANGED dpVars
    /\ UNCHANGED guiVars

NextExport ==
    \/ ExportMain \/ FfConnect \/ FfFetch \/ FfFinally \/ FfWrite
    \/ RxConnect \/ RxFetch \/ RxFinally \/ RxWrite

SpecExport == InitExport /\ [][NextExport]_vars


----------------------------------------------------------------------------
(* Properties of DataPuller *)

\* the list under `downloads` in the configuration file ([] when the object
\* has no such key or holds null there)
ConfiguredList ==
    IF /\ config.kind = "object"
       /\ "downloads" \in DOMAIN config.obj
       /\ config.obj["downloads"].t = "list"
    THEN config.obj["downloads"].l
    ELSE <<>>

\* item i of the file carries a non-empty value under key
Carries(i, key) ==
    LET item == ConfiguredList[i]
    IN key \in DOMAIN item /\ item[key].t = "str" /\ item[key].s # ""

CarriesBoth(i) == Carries(i, "url") /\ Carries(i, "destination")

Logged(i, e) == \E k \in 1..Len(log) : log[k] = [i |-> i, ev |-> e]

Processed(i) == Logged(i, "skip") \/ Logged(i, "true") \/ Logged(i, "false")

Finished == pc = "exited"

InDownloadFile == {"df_mkdir", "df_get", "df_status", "df_open", "df_stream"}

LastLine(o) == o[Len(o)]

\* C1: when main ends on a configuration that is an object, the exit status
\* is 0 if every item of the list succeeded (its download_file call returned
\* True) and 1 otherwise; an empty list exits 0 after the "no downloads"
\* notice.
C1_ExitStatus ==
    (Finished /\ config.kind = "object") =>
        /\ exitCode \in {0, 1}
        /\ exitCode = 0 <=>
             \A i \in 1..Len(ConfiguredList) : CarriesBoth(i) /\ Logged(i, "true")
        /\ Len(ConfiguredList) = 0 =>
             /\ exitCode = 0
             /\ out = <<"No downloads specified in configuration file.">>

C1_Witness ==
    /\ Finished
    /\ Len(ConfiguredList) = 2
    /\ Logged(1, "true")
    /\ Logged(2, "false")
    /\ exitCode = 1

\* C2: on a configuration file that is missing, not parseable or not a
\* key-value object at its top level, the run ends with status 1, one of
\* load_config's error lines was printed and download_file was never called.
C2_ConfigErrorReported ==
    (Finished /\ config.kind \in {"missing", "invalid_json", "not_object"}) =>
        /\ exitCode = 1
        /\ \E k \in 1..Len(out) :
              out[k] \in {"Error: Configuration file not found",
                          "Error: Invalid JSON in configuration file"}
        /\ \A k \in 1..Len(log) : log[k].ev # "call"

\* C3: every step that leaves download_file returns to main (no exception
\* escapes); it returns True only after the success line, with the
\* destination holding every chunk of the response, and otherwise returns
\* False after an error line.
C3_NoEscape ==
    [][(pc \in InDownloadFile /\ pc' \notin InDownloadFile) =>
          /\ pc' = "df_return"
          /\ Len(out') = Len(out) + 1
          /\ IF ret'
             THEN /\ LastLine(out') = "Successfully downloaded to"
                  /\ fs'[Dest].exists
                  /\ fs'[Dest].data = resp.body
             ELSE LastLine(out') \in {"Error downloading", "Error writing to"}
      ]_vars

\* a write failed after the first chunk: False, with the error line
C3_Witness ==
    /\ pc = "df_return"
    /\ ~ret
    /\ LastLine(out) = "Error writing to"
    /\ fs[Dest].exists
    /\ Len(fs[Dest].data) = 1

\* C4: an item that does not carry both url and destination is skipped
\* without a download_file call, fail_count goes up by one, success_count
\* stays, and every later item is still processed before the run ends.
C4_SkipCounted ==
    /\ []((Finished /\ config.kind = "object") =>
            \A i \in 1..Len(ConfiguredList) :
                ~CarriesBoth(i) =>
                    /\ Logged(i, "skip")
                    /\ ~Logged(i, "call")
                    /\ \A j \in (i + 1)..Len(ConfiguredList) : Processed(j))
    /\ [][(pc = "loop" /\ idx <= Len(ConfiguredList) /\ ~CarriesBoth(idx)) =>
             /\ fail_count' = fail_count + 1
             /\ success_count' = success_count
             /\ pc' = "loop"
             /\ idx' = idx + 1
             /\ log' = Append(log, [i |-> idx, ev |-> "skip"])
         ]_vars

C4_Witness ==
    /\ Finished
    /\ Len(ConfiguredList) = 2
    /\ Logged(1, "skip")
    /\ Logged(2, "true")
    /\ fail_count = 1
    /\ success_count = 1

\* C5: when download_file returned False for an item, every later item of
\* the list has been processed when the run ends, and the exit status is 1.
C5_ContinuesAfterFailure ==
    (Finished /\ config.kind = "object") =>
        \A i \in 1..Len(ConfiguredList) :
            Logged(i, "false") =>
                /\ exitCode = 1
                /\ \A j \in (i + 1)..Len(ConfiguredList) : Processed(j)

C5_Witness ==
    /\ Finished
    /\ Len(ConfiguredList) = 2
    /\ Logged(1, "false")
    /\ Logged(2, "true")
    /\ exitCode = 1

\* C6: a list of N >= 1 items that all carry both fields and of which no
\* transfer failed ends with status 0 and the summary N, 0, N.
C6_AllSucceed ==
    (/\ Finished
     /\ Len(ConfiguredList) >= 1
     /\ \A i \in 1..Len(ConfiguredList) : CarriesBoth(i)
     /\ \A k \in 1..Len(log) : log[k].ev # "false") =>
        /\ exitCode = 0
        /\ summary = <<Len(ConfiguredList), 0, Len(ConfiguredList)>>

C6_Witness == Finished /\ summary = <<2, 0, 2>> /\ exitCode = 0

\* the download_file calls and returns, in the order they happened
Calls == SelectSeq(log, LAMBDA x : x.ev # "skip")

\* the items that carry both fields, in list order
ValidIdx ==
    SelectSeq([i \in 1..Len(ConfiguredList) |-> i], LAMBDA i : CarriesBoth(i))

\* C7: the download_file calls are, in list order, one call per item that
\* carries both fields, each followed by its return before the next call;
\* when the run ends every such item has had its call.
C7_OneAttemptInOrder ==
    config.kind = "object" =>
        /\ Len(Calls) <= 2 * Len(ValidIdx)
        /\ \A k \in 1..Len(Calls) :
              IF k % 2 = 1
              THEN Calls[k] = [i |-> ValidIdx[(k + 1) \div 2], ev |-> "call"]
              ELSE /\ Calls[k].i = Calls[k - 1].i
                   /\ Calls[k].ev \in {"true", "false"}
        /\ Finished => Len(Calls) = 2 * Len(ValidIdx)

C7_Witness ==
    /\ Finished
    /\ log = <<[i |-> 1, ev |-> "call"], [i |-> 1, ev |-> "false"],
               [i |-> 2, ev |-> "call"], [i |-> 2, ev |-> "false"]>>

\* C8: after a second run, a destination of the list that existed before it
\* is either the file it was (nothing was written to it) or holds exactly a
\* body the second run fetched for it: never part of a body, never a
\* corrupted file.
C8_RerunOverwrites ==
    (Finished /\ run = 2 /\ config.kind = "object") =>
        \A i \in 1..Len(ConfiguredList) :
            CarriesBoth(i) =>
                LET d == ConfiguredList[i]["destination"].s
                IN fs0[d].exists =>
                      \/ fs[d] = fs0[d]
                      \/ fs[d].exists /\ fs[d].data \in served[d]

\* C9: at the head of the loop and inside download_file the two counters
\* add up to the number of items processed so far; every item moves exactly
\* one of them up by one; neither ever goes down; the summary printed has
\* Successful + Failed = Total = the length of the list.
C9_Tally ==
    /\ [](pc \in ({"loop", "df_return"} \cup InDownloadFile) =>
            success_count + fail_count = idx - 1)
    /\ [](summary # <<>> =>
            /\ summary[1] + summary[2] = summary[3]
            /\ summary[3] = Len(ConfiguredList))
    /\ [][success_count' >= success_count /\ fail_count' >= fail_count]_vars
    /\ [][(idx >= 1 /\ idx' = idx + 1) =>
             \/ success_count' = success_count + 1 /\ fail_count' = fail_count
             \/ success_count' = success_count /\ fail_count' = fail_count + 1
         ]_vars

C9_Witness == Finished /\ summary = <<1, 1, 2>>

----------------------------------------------------------------------------
(* Properties of LeaderboardDBPuller *)

Ff7sbReturned ==
    epc \in {"rx_connect", "rx_fetch", "rx_finally", "rx_finally_exc",
             "rx_check", "done"}

\* C10: when the queries for all of MAP_IDS returned no row, export_ff7sb
\* prints "No data returned - CSV not written." and leaves ff7sb.csv as it
\* was (absent, or the earlier file).
C10_NoDataNoCsv ==
    (Ff7sbReturned /\ \A k \in 1..Len(MAP_IDS) : db.rows[k] = 0) =>
        /\ csv["ff7sb.csv"] = csv0["ff7sb.csv"]
        /\ \E k \in 1..Len(eout) :
              eout[k] = "[FF7SB] No data returned - CSV not written."


----------------------------------------------------------------------------
(* CreateResourceCard: strings and build_html *)

\* a string is a sequence of characters; one character of each kind the
\* code tells apart: lower case, upper case, white space, punctuation
Chars == {"a", "B", " ", "&"}

Strings == UNION {[1..n -> Chars] : n \in 0..MaxLen}

\* str.lower()
Lower(str) == [i \in 1..Len(str) |-> IF str[i] = "B" THEN "b" ELSE str[i]]

\* the complement of the class [^a-z0-9]
IsSlugChar(c) == c \in {"a", "b"}

\* slugify_for_i18n(s): lower case, then every run of other characters removed
SlugifyForI18n(str) == SelectSeq(Lower(str), IsSlugChar)

\* slugify_simple(s)
SlugifySimple(str) == SlugifyForI18n(str)

\* str.strip()
Strip(str) ==
    LET keep == {i \in 1..Len(str) : str[i] # " "}
    IN IF keep = {} THEN <<>>
       ELSE LET lo == CHOOSE i \in keep : \A j \in keep : i <= j
                hi == CHOOSE i \in keep : \A j \in keep : j <= i
            IN SubSeq(str, lo, hi)

\* html.escape(s)
Escape(str) == [i \in 1..Len(str) |-> IF str[i] = "&" THEN "&amp;" ELSE str[i]]

\* the fallback key "resources.categories.tools", by its last part
ToolsKey == <<"t", "o", "o", "l", "s">>

\* build_html(card_name, category, ..., update_meta_pills): what it raises,
\* or the snippet by the values put into the template (the comment,
\* the name slug of the i18n keys, data-category, the category pill's key);
\* the other fields keep the text the window starts with
BuildHtml(name, cat_in, pills) ==
    LET name_slug == SlugifyForI18n(name)
        cat == Strip(cat_in)
        cat_slug == SlugifySimple(cat)
        cat_i18n == IF pills /\ cat_slug # <<>> THEN cat_slug ELSE ToolsKey
    IN IF name_slug = <<>>
       THEN [raised |-> TRUE, html |-> <<>>,
             msg |-> "Card Name must contain at least one alphanumeric character."]
       ELSE IF cat = <<>>
       THEN [raised |-> TRUE, html |-> <<>>, msg |-> "Category cannot be empty."]
       ELSE [raised |-> FALSE,
             html |-> <<Escape(name), name_slug, Escape(cat), cat_i18n>>,
             msg |-> ""]

----------------------------------------------------------------------------
(* CreateResourceCard: CardGUI *)

\* the texts of the StringVars in __init__, shortened: "Card Name" and
\* "tools, docs, community, repos"
DefaultCardName == <<"B", "a", " ", "B", "a">>
DefaultCategory == <<"a", "&", " ", "a">>

\* self.output.get("1.0", tk.END).strip(): a snippet starts with "<!--" and
\* ends with "</li>", so nothing is stripped from it
OutputText(box) == box

\* on_generate(): the output box and the message boxes after it
OnGenerate(box) ==
    LET r == BuildHtml(card_name, category, update_pills)
    IN IF r.raised
       THEN [output |-> box, dialogs |-> <<"Error">>, raised |-> TRUE]
       ELSE [output |-> r.html, dialogs |-> <<>>, raised |-> FALSE]

\* CardGUI.__init__ with its `Initial generation`, then root.mainloop()
InitGui ==
    /\ gpc = "mainloop"
    /\ card_name = DefaultCardName
    /\ category = DefaultCategory
    /\ update_pills = TRUE
    /\ output = BuildHtml(DefaultCardName, DefaultCategory, TRUE).html
    /\ clipboard = <<>>
    /\ savedFile = <<>>
    /\ dialogs = <<>>
    /\ last = [op |-> "init", raised |-> FALSE, before |-> <<>>]
    /\ steps = 0
    /\ DataPullerIdle
    /\ ExportIdle

UserActs == gpc = "mainloop" /\ steps < MaxSteps /\ steps' = steps + 1

\* the user types into the Card Name entry
EditCardName ==
    /\ UserActs
    /\ \E str \in Strings : card_name' = str
    /\ last' = [op |-> "edit", raised |-> FALSE, before |-> output]
    /\ dialogs' = <<>>
    /\ UNCHANGED <<gpc, category, update_pills, output, clipboard, savedFile>>
    /\ UNCHANGED <<dpVars, exVars>>

\* the user types into the Category entry
EditCategory ==
    /\ UserActs
    /\ \E str \in Strings : category' = str
    /\ last' = [op |-> "edit", raised |-> FALSE, before |-> output]
    /\ dialogs' = <<>>
    /\ UNCHANGED <<gpc, card_name, update_pills, output, clipboard, savedFile>>
    /\ UNCHANGED <<dpVars, exVars>>

\* the user clicks the checkbox
TogglePills ==
    /\ UserActs
    /\ update_pills' = ~update_pills
    /\ last' = [op |-> "edit", raised |-> FALSE, before |-> output]
    /\ dialogs' = <<>>
    /\ UNCHANGED <<gpc, card_name, category, output, clipboard, savedFile>>
    /\ UNCHANGED <<dpVars, exVars>>

\* the user deletes the text of the output box (a tk.Text, left editable)
ClearOutput ==
    /\ UserActs
    /\ output' = <<>>
    /\ last' = [op |-> "edit", raised |-> FALSE, before |-> output]
    /\ dialogs' = <<>>
    /\ UNCHANGED <<gpc, card_name, category, update_pills, clipboard, savedFile>>
    /\ UNCHANGED <<dpVars, exVars>>

\* the Generate HTML button: on_generate()
PressGenerate ==
    /\ UserActs
    /\ LET g == OnGenerate(output)
       IN /\ output' = g.output
          /\ dialogs' = g.dialogs
          /\ last' = [op |-> "generate", raised |-> g.raised, before |-> output]
    /\ UNCHANGED <<gpc, card_name, category, update_pills, clipboard, savedFile>>
    /\ UNCHANGED <<dpVars, exVars>>

\* the Copy to Clipboard button: copy_to_clipboard()
PressCopy ==
    /\ UserActs
    /\ LET empty == OutputText(output) = <<>>
           g == IF empty THEN OnGenerate(output)
                ELSE [output |-> output, dialogs |-> <<>>, raised |-> FALSE]
           html == OutputText(g.output)
       IN /\ output' = g.output
          /\ clipboard' = <<html>>
          /\ dialogs' = Append(g.dialogs, "Copied")
          /\ last' = [op |-> "copy", raised |-> g.raised, before |-> output]
    /\ UNCHANGED <<gpc, card_name, category, update_pills, savedFile>>
    /\ UNCHANGED <<dpVars, exVars>>

\* the Save to File button: save_to_file(); the file dialog is cancelled,
\* or names a file that can, or cannot, be written
PressSave ==
    /\ UserActs
    /\ LET empty == OutputText(output) = <<>>
           g == IF empty THEN OnGenerate(output)
                ELSE [output |-> output, dialogs |-> <<>>, raised |-> FALSE]
           html == OutputText(g.output)
       IN /\ output' = g.output
          /\ last' = [op |-> "save", raised |-> g.raised, before |-> output]
          /\ \E choice \in {"cancel", "written", "ioerror"} :
                CASE choice = "cancel" ->
                       dialogs' = g.dialogs /\ UNCHANGED savedFile
                  [] choice = "written" ->
                       /\ savedFile' = <<html>>
                       /\ dialogs' = Append(g.dialogs, "Saved")
                  [] choice = "ioerror" ->
                       /\ dialogs' = Append(g.dialogs, "Save Error")
                       /\ UNCHANGED savedFile
    /\ UNCHANGED <<gpc, card_name, category, update_pills, clipboard>>
    /\ UNCHANGED <<dpVars, exVars>>

NextGui ==
    \/ EditCardName \/ EditCategory \/ TogglePills \/ ClearOutput
    \/ PressGenerate \/ PressCopy \/ PressSave

SpecGui == InitGui /\ [][NextGui]_vars

----------------------------------------------------------------------------
(* Properties of CreateResourceCard *)

Shown(d) == \E k \in 1..Len(dialogs) : dialogs[k] = d

\* C11: whenever "Copied" is reported the clipboard holds a non-empty
\* snippet, whenever a file was written ("Saved") it holds a non-empty
\* snippet, and a handler in which build_html raised has left the output
\* box exactly as it was.
C11_NeverEmptySnippet ==
    /\ (last.op = "copy" /\ Shown("Copied")) =>
          clipboard # <<>> /\ clipboard[1] # <<>>
    /\ (last.op = "save" /\ Shown("Saved")) =>
          savedFile # <<>> /\ savedFile[1] # <<>>
    /\ last.raised => output = last.before

============================================================================
